---- MODULE Spec2Model ----
(***************************************************************************)
(* Model of measurements-koyeb: src/main.py (TimingTracker, main(region),  *)
(* the __main__ scheduler loop and the Prometheus listener) and            *)
(* src/monitor.py (measure_deployment and its loop), a separate process    *)
(* whose state is the record `mon`.                                        *)
(*                                                                         *)
(* Time is a non-decreasing integer clock `now` (time.time()); every       *)
(* blocking step (an SDK call, a time.sleep) advances it by 0 or 1.        *)
(* The Histogram prom_metric is modelled by the list of the observations   *)
(* made on it (its per-label count, sum and buckets are functions of that  *)
(* list).  An SDK call either returns or raises.                           *)
(***************************************************************************)
EXTENDS Integers, Sequences, FiniteSets, TLC

\* ---------------------------------------------------------------- bounds
MaxCycles == 3
MaxClock == 1
MaxCalls == 3
MaxDur == 1
MaxRuns == 3
MaxElapsed == 2

VARIABLES
    tokenSet,        \* os.getenv("KOYEB_API_TOKEN") is non-empty
    listener,        \* the metrics HTTP listener thread is serving
    spc,             \* position of the __main__ scheduler loop
    regionIdx,       \* index of the for-loop over ("fra", "was", "sin")
    pc,              \* position inside main(region)
    sandbox,         \* main's local `sandbox`: FALSE is None, TRUE a handle
    instance_status, \* main's local `instance_status`
    is_healthy,      \* main's local `is_healthy`
    now,             \* time.time()
    phase_start,     \* the *_start timestamp of the phase being timed
    operations,      \* tracker.operations
    categories,      \* tracker.categories (a defaultdict(list))
    registry,        \* observations made on prom_metric, in order
    scraped,         \* the scrape response served in the last step, if any
    failures,        \* number of SDK calls that raised so far
    cycle,           \* history: number of main() calls so far
    createCalls,     \* history: number of Sandbox.create calls so far
    createOutcome,   \* history: outcome of Sandbox.create in this cycle
    deleteCalls,     \* history: number of sandbox.delete() calls in this cycle
    deleteOutcome,   \* history: outcome of sandbox.delete() in this cycle
    failedAt,        \* history: phase of this cycle in which a call raised
    failCycles,      \* history: cycles in which an SDK call raised
    errorsLogged,    \* history: times the except block printed an error
    recaps,          \* history: number of print_recap() calls
    diagnostics,     \* history: times "KOYEB_API_TOKEN not set" was printed
    schedLog,        \* history: scheduler events (main calls, returns, sleeps)
    cycleBase,       \* history: number of observations made before this cycle
    highest,         \* history: highest rank of the statuses read in this cycle
    trace,           \* history: calls made on a tracker driven directly
    mon              \* monitor.py: the state of its process and of the remote app

trackerVars == <<operations, categories, registry>>
mainVars == <<pc, sandbox, instance_status, is_healthy, now, phase_start>>
schedVars == <<tokenSet, listener, spc, regionIdx>>
histVars == <<failures, cycle, createCalls, createOutcome, deleteCalls, deleteOutcome, failedAt,
              failCycles, errorsLogged, recaps, diagnostics, schedLog, cycleBase, highest>>
pollerVars == <<trackerVars, mainVars, tokenSet, spc, regionIdx, histVars, trace, mon>>
mainSide == <<trackerVars, mainVars, schedVars, histVars, scraped, trace>>
vars == <<mainSide, mon>>

\* ------------------------------------------------------------- constants
Regions == <<"fra", "was", "sin">>
region == Regions[regionIdx]

ALLOCATING == "InstanceStatus.ALLOCATING"
STARTING == "InstanceStatus.STARTING"
HEALTHY == "InstanceStatus.HEALTHY"
\* An instance status that is in no exit set of main's polling loops.
ERRORED == "InstanceStatus.ERROR"
InstanceStatuses == {ERRORED, ALLOCATING, STARTING, HEALTHY}

\* Replies of instances_api.list_instances: the statuses of the instances listed.
Replies == {<<>>} \cup {<<s>> : s \in InstanceStatuses} \cup {<<STARTING, ERRORED>>}

Phases == {"discover", "allocate", "starting"}

\* ------------------------------------------------------------ TimingTracker
RECURSIVE SumSeq(_)
SumSeq(s) == IF s = <<>> THEN 0 ELSE Head(s) + SumSeq(Tail(s))

RECURSIVE SumDurations(_)
SumDurations(ops) ==
    IF ops = <<>> THEN 0 ELSE Head(ops).duration + SumDurations(Tail(ops))

EmptyCategories == [c \in {} |-> <<>>]

NewTracker == [operations |-> <<>>, categories |-> EmptyCategories]

\* defaultdict(list).__getitem__: a missing key is inserted with an empty list.
DefaultGet(cats, c) == IF c \in DOMAIN cats THEN cats ELSE cats @@ (c :> <<>>)

Observe(reg, operation, category, reg_label, value) ==
    Append(reg, [operation |-> operation, category |-> category,
                 region |-> reg_label, value |-> value])

get_total_time_SetupOnly(w) ==
    SumDurations(SelectSeq(w.operations, LAMBDA o : o.category = "setup"))

get_total_time(w) == SumDurations(w.operations)

\* The value get_category_total(category) returns.
get_category_total(w, category) == SumSeq(DefaultGet(w.categories, category)[category])

\* The tracker after get_category_total(category): the lookup inserts the key.
get_category_total_effect(w, category) ==
    [w EXCEPT !.categories = DefaultGet(w.categories, category)]

record_NoCategory(w, name, duration, category, reg_label, ts) ==
    [operations |-> Append(w.operations, [name |-> name, duration |-> duration,
                                          category |-> category, timestamp |-> ts]),
     categories |-> DefaultGet(w.categories, category),
     registry |-> Observe(w.registry, name, category, reg_label, duration)]

record_LabelsSwapped(w, name, duration, category, reg_label, ts) ==
    [operations |-> Append(w.operations, [name |-> name, duration |-> duration,
                                          category |-> category, timestamp |-> ts]),
     categories |-> [DefaultGet(w.categories, category) EXCEPT ![category] = Append(@, duration)],
     registry |-> Observe(w.registry, category, name, reg_label, duration)]

record(w, name, duration, category, reg_label, ts) ==
    [operations |-> Append(w.operations, [name |-> name, duration |-> duration,
                                          category |-> category, timestamp |-> ts]),
     categories |-> [DefaultGet(w.categories, category) EXCEPT ![category] = Append(@, duration)],
     registry |-> Observe(w.registry, name, category, reg_label, duration)]

record_total_time_Recording(w, reg_label) ==
    record(w, "total", get_total_time(w), "total", reg_label, 0)

record_total_time(w, reg_label) ==
    [w EXCEPT !.registry = Observe(w.registry, "total", "total", reg_label, get_total_time(w))]

World == [operations |-> operations, categories |-> categories, registry |-> registry]

SetWorld(w) ==
    /\ operations' = w.operations
    /\ categories' = w.categories
    /\ registry' = w.registry

\* ------------------------------------------------------------- main(region)
\* get_instance_status: "" when no instance is listed, else the first one's status.
get_instance_status(rep) == IF Len(rep) = 0 THEN "" ELSE rep[1]

\* The while-conditions of the three status polling loops, negated.
\* The lifecycle order of the statuses: unknown, seen, allocating, starting, healthy.
Rank(status) ==
    CASE status = "" -> 0
      [] status = ALLOCATING -> 2
      [] status = STARTING -> 3
      [] status = HEALTHY -> 4
      [] OTHER -> 1

Higher(a, b) == IF a >= b THEN a ELSE b

ExitCond_RetreatEnds(p, status) ==
    \/ Rank(status) < highest
    \/ CASE p = "discover" -> status # ""
        [] p = "allocate" -> status \in {STARTING, ALLOCATING, HEALTHY}
        [] p = "starting" -> status \in {STARTING, HEALTHY}

ExitCond(p, status) ==
    CASE p = "discover" -> status # ""
      [] p = "allocate" -> status \in {STARTING, ALLOCATING, HEALTHY}
      [] p = "starting" -> status \in {STARTING, HEALTHY}

PhaseName(p) ==
    CASE p = "discover" -> "instance creation"
      [] p = "allocate" -> "instance allocation"
      [] p = "starting" -> "instance starting"

NextPc_SkipStarting(p) ==
    CASE p = "discover" -> "allocate"
      [] p = "allocate" -> "health"
      [] p = "starting" -> "health"

NextPc(p) ==
    CASE p = "discover" -> "allocate"
      [] p = "allocate" -> "starting"
      [] p = "starting" -> "health"

SleepPc(p) ==
    CASE p = "discover" -> "discover_sleep"
      [] p = "allocate" -> "allocate_sleep"
      [] p = "starting" -> "starting_sleep"

\* Whether the sleep of a polling loop's body runs after a status was read.
SleepsAfter(p, status) == status = ""

\* No scrape response is being delivered.
NoScrape == [served |-> FALSE, body |-> <<>>]

\* How much the clock may advance during one blocking step.
Ticks == IF now < MaxClock THEN {0, 1} ELSE {0}

\* Outcomes of an SDK call: TRUE it returns, FALSE it raises.
Outcomes == {TRUE, FALSE}

\* An exception raised inside main's try block: the except clause prints it and
\* control reaches the finally block.
Raise(phase) ==
    /\ failures' = failures + 1
    /\ failedAt' = phase
    /\ failCycles' = failCycles \cup {cycle}
    /\ errorsLogged' = errorsLogged + 1
    /\ pc' = "finally"

NoRaise == UNCHANGED <<failures, failedAt, failCycles, errorsLogged>>

Return_Hang ==
    /\ pc' = "idle"
    /\ spc' = "main"
    /\ schedLog' = schedLog

\* main() returns to the scheduler loop, which goes on to time.sleep(60).
Return ==
    /\ pc' = "idle"
    /\ spc' = "sleep60"
    /\ schedLog' = Append(schedLog, "return")

\* ------------------------------------------------------------- monitor.py
\* None, for instance_allocating_time and total_responsive_time.
MonNone == -1

\* The statuses the polling loop of monitor.py tests for, and one it does not.
MonReady == {"ALLOCATING", "STARTING", "HEALTHY"}
MonStatuses == MonReady \cup {"PROVISIONING"}

\* Replies of instance_api.list_instances(limit=1).
MonReplies == {<<>>} \cup {<<st>> : st \in MonStatuses}

\* What requests.get(public_url, timeout=2) does: a 200, another status code,
\* or a RequestException.
UrlResults == {"200", "503", "RequestException"}

\* Answers typed at the cleanup prompt.
Answers == {"y", "n"}

\* monitor.py before its first statement: nothing exists on the control plane,
\* the Gauge holds its initial value 0.
MonInit ==
    [mpc |-> "boot",
     appExists |-> FALSE,
     serviceExists |-> FALSE,
     app_id |-> FALSE,
     service_id |-> FALSE,
     instance_allocating_time |-> MonNone,
     elapsed |-> 0,
     total_responsive_time |-> MonNone,
     TIME_TO_READY |-> 0,
     deleteAttempted |-> FALSE,
     lastSuccess |-> MonNone,
     runs |-> 0]

\* measure_deployment returns to the __main__ loop, which sleeps 300 s.
MonReturn(m) == [m EXCEPT !.mpc = "sleep300"]

\* An exception nothing catches: the process ends with a traceback.
MonCrash(m) == [m EXCEPT !.mpc = "crashed"]

TypeOK ==
    /\ tokenSet \in BOOLEAN /\ listener \in BOOLEAN /\ sandbox \in BOOLEAN
    /\ spc \in {"boot", "loop", "main", "sleep60", "sleep180", "terminated"}
    /\ regionIdx \in 1..3
    /\ now \in 0..MaxClock /\ phase_start \in 0..now
    /\ cycle \in 0..MaxCycles
    /\ failures \in 0..(2 * MaxCycles)
    /\ mon.mpc \in {"boot", "exited", "loop", "create_app", "create_service", "poll",
                    "prompt", "sleep300", "crashed"}
    /\ mon.runs \in 0..MaxRuns /\ mon.elapsed \in 0..MaxElapsed
    /\ mon.instance_allocating_time \in {MonNone} \cup 0..MaxElapsed
    /\ mon.total_responsive_time \in {MonNone} \cup 0..MaxElapsed
    /\ mon.lastSuccess \in {MonNone} \cup 0..MaxElapsed
    /\ mon.TIME_TO_READY = 0

Init ==
    /\ tokenSet \in BOOLEAN
    /\ listener = FALSE
    /\ spc = "boot"
    /\ regionIdx = 1
    /\ pc = "idle"
    /\ sandbox = FALSE
    /\ instance_status = ""
    /\ is_healthy = FALSE
    /\ now = 0
    /\ phase_start = 0
    /\ operations = <<>>
    /\ categories = EmptyCategories
    /\ registry = <<>>
    /\ scraped = NoScrape
    /\ failures = 0
    /\ cycle = 0
    /\ createCalls = 0
    /\ createOutcome = "none"
    /\ deleteCalls = 0
    /\ deleteOutcome = "none"
    /\ failedAt = "none"
    /\ failCycles = {}
    /\ errorsLogged = 0
    /\ recaps = 0
    /\ diagnostics = 0
    /\ schedLog = <<>>
    /\ cycleBase = 0
    /\ highest = 0
    /\ trace = <<>>
    /\ mon = MonInit

SchedStart_NoListener ==
    /\ spc = "boot"
    /\ listener' = FALSE
    /\ spc' = "loop"
    /\ scraped' = NoScrape
    /\ UNCHANGED <<trackerVars, mainVars, tokenSet, regionIdx, histVars, trace, mon>>

\* __main__: start_http_server(7777), then enter the while True loop.
SchedStart ==
    /\ spc = "boot"
    /\ listener' = TRUE
    /\ spc' = "loop"
    /\ scraped' = NoScrape
    /\ UNCHANGED <<trackerVars, mainVars, tokenSet, regionIdx, histVars, trace, mon>>

\* main(region) is called without the token: it prints the error and returns.
MainNoToken ==
    /\ spc = "loop" /\ cycle < MaxCycles
    /\ ~tokenSet
    /\ cycle' = cycle + 1
    /\ diagnostics' = diagnostics + 1
    /\ schedLog' = schedLog \o <<region, "return">>
    /\ spc' = "sleep60"
    /\ scraped' = NoScrape
    /\ UNCHANGED <<trackerVars, mainVars, tokenSet, listener, regionIdx, trace, mon,
                   failures, createCalls, createOutcome, deleteCalls, deleteOutcome, failedAt,
                   failCycles, errorsLogged, recaps, cycleBase, highest>>

\* main(region) is called with the token: client, fresh tracker, sandbox = None,
\* sandbox_create_start = time.time().
MainBegin ==
    /\ spc = "loop" /\ cycle < MaxCycles
    /\ tokenSet
    /\ cycle' = cycle + 1
    /\ schedLog' = Append(schedLog, region)
    /\ spc' = "main"
    /\ pc' = "create"
    /\ operations' = NewTracker.operations
    /\ categories' = NewTracker.categories
    /\ sandbox' = FALSE
    /\ instance_status' = ""
    /\ is_healthy' = FALSE
    /\ phase_start' = now
    /\ createOutcome' = "none"
    /\ deleteCalls' = 0
    /\ deleteOutcome' = "none"
    /\ failedAt' = "none"
    /\ cycleBase' = Len(registry)
    /\ highest' = 0
    /\ scraped' = NoScrape
    /\ UNCHANGED <<registry, now, tokenSet, listener, regionIdx, trace, mon,
                   failures, createCalls, failCycles, errorsLogged, recaps, diagnostics>>

\* Sandbox.create(...), then the record of "Sandbox creation".
Create ==
    /\ spc = "main" /\ pc = "create"
    /\ \E d \in Ticks, ok \in Outcomes :
         /\ now' = now + d
         /\ createCalls' = createCalls + 1
         /\ IF ok
            THEN /\ sandbox' = TRUE
                 /\ createOutcome' = "returned"
                 /\ SetWorld(record(World, "Sandbox creation", now' - phase_start,
                                    "setup", region, now'))
                 /\ instance_status' = ""
                 /\ phase_start' = now'
                 /\ pc' = "discover"
                 /\ NoRaise
            ELSE /\ createOutcome' = "raised"
                 /\ Raise("create")
                 /\ UNCHANGED <<trackerVars, sandbox, instance_status, phase_start>>
    /\ scraped' = NoScrape
    /\ UNCHANGED <<is_healthy, schedVars, trace, mon, cycle, deleteCalls, deleteOutcome,
                   recaps, diagnostics, cycleBase, highest, schedLog>>

\* One turn of a status polling loop: the loop condition holds, so
\* get_instance_status is called and its result assigned.
Poll(p) ==
    /\ spc = "main" /\ pc = p
    /\ ~ExitCond(p, instance_status)
    /\ \E d \in Ticks, ok \in Outcomes :
         /\ now' = now + d
         /\ IF ok
            THEN /\ \E rep \in Replies :
                      /\ instance_status' = get_instance_status(rep)
                      /\ highest' = Higher(highest, Rank(instance_status'))
                      /\ pc' = IF SleepsAfter(p, instance_status') THEN SleepPc(p) ELSE p
                 /\ NoRaise
            ELSE /\ Raise(p)
                 /\ UNCHANGED <<instance_status, highest>>
    /\ scraped' = NoScrape
    /\ UNCHANGED <<trackerVars, sandbox, is_healthy, phase_start, schedVars,
                   trace, mon, cycle, createCalls, createOutcome, deleteCalls, deleteOutcome, recaps,
                   diagnostics, schedLog, cycleBase>>

PollSleep_GiveUp(p) ==
    /\ spc = "main" /\ pc = SleepPc(p)
    /\ \E d \in Ticks : now' = now + d
    /\ pc' = NextPc(p)
    /\ scraped' = NoScrape
    /\ UNCHANGED <<trackerVars, sandbox, instance_status, is_healthy, phase_start,
                   schedVars, trace, mon, histVars>>

\* time.sleep(0.2) in a status polling loop.
PollSleep(p) ==
    /\ spc = "main" /\ pc = SleepPc(p)
    /\ \E d \in Ticks : now' = now + d
    /\ pc' = p
    /\ scraped' = NoScrape
    /\ UNCHANGED <<trackerVars, sandbox, instance_status, is_healthy, phase_start,
                   schedVars, trace, mon, histVars>>

PhaseExit_Refetch(p) ==
    /\ spc = "main" /\ pc = p
    /\ ExitCond(p, instance_status)
    /\ SetWorld(record(World, PhaseName(p), now - phase_start, "setup", region, now))
    /\ phase_start' = now
    /\ pc' = NextPc(p)
    /\ is_healthy' = FALSE
    /\ instance_status' = ""
    /\ scraped' = NoScrape
    /\ UNCHANGED <<sandbox, now, schedVars, trace, mon, histVars>>

\* The loop condition of a status polling loop is false: the phase is recorded
\* and the next phase's start timestamp is taken.
PhaseExit(p) ==
    /\ spc = "main" /\ pc = p
    /\ ExitCond(p, instance_status)
    /\ SetWorld(record(World, PhaseName(p), now - phase_start, "setup", region, now))
    /\ phase_start' = now
    /\ pc' = NextPc(p)
    /\ is_healthy' = FALSE
    /\ scraped' = NoScrape
    /\ UNCHANGED <<sandbox, instance_status, now, schedVars, trace, mon, histVars>>

\* sandbox.is_healthy() in the health loop.
HealthPoll ==
    /\ spc = "main" /\ pc = "health"
    /\ ~is_healthy
    /\ \E d \in Ticks, ok \in Outcomes :
         /\ now' = now + d
         /\ IF ok
            THEN /\ is_healthy' \in BOOLEAN
                 /\ pc' = "health_sleep"
                 /\ NoRaise
            ELSE /\ Raise("health")
                 /\ UNCHANGED is_healthy
    /\ scraped' = NoScrape
    /\ UNCHANGED <<trackerVars, sandbox, instance_status, phase_start, schedVars,
                   trace, mon, cycle, createCalls, createOutcome, deleteCalls, deleteOutcome, recaps,
                   diagnostics, cycleBase, highest, schedLog>>

\* time.sleep(0.05) in the health loop; when is_healthy, the loop ends: the
\* "Health check" record and tracker.record_total_time(region).
HealthSleep ==
    /\ spc = "main" /\ pc = "health_sleep"
    /\ \E d \in Ticks :
         /\ now' = now + d
         /\ IF is_healthy
            THEN /\ SetWorld(record_total_time(
                        record(World, "Health check", now' - phase_start,
                               "monitoring", region, now'),
                        region))
                 /\ pc' = "finally"
            ELSE /\ pc' = "health"
                 /\ UNCHANGED trackerVars
    /\ scraped' = NoScrape
    /\ UNCHANGED <<sandbox, instance_status, is_healthy, phase_start, schedVars,
                   trace, mon, histVars>>

\* The finally block's `if sandbox:`.
TeardownDue_OnSuccessOnly == sandbox /\ failedAt = "none"

TeardownDue_Always == TRUE

TeardownDue == sandbox

\* finally, with a sandbox: sandbox.delete(), the "Sandbox deletion" record and
\* print_recap(). An exception of delete() leaves main() and the scheduler loop:
\* the process ends.
Delete ==
    /\ spc = "main" /\ pc = "finally"
    /\ TeardownDue
    /\ \E d \in Ticks, ok \in Outcomes :
         /\ now' = now + d
         /\ deleteCalls' = deleteCalls + 1
         /\ IF ok
            THEN /\ deleteOutcome' = "returned"
                 /\ SetWorld(record(World, "Sandbox deletion", now' - now,
                                    "cleanup", region, now'))
                 /\ recaps' = recaps + 1
                 /\ Return
                 /\ UNCHANGED <<failures, failCycles, listener>>
            ELSE /\ deleteOutcome' = "raised"
                 /\ failures' = failures + 1
                 /\ failCycles' = failCycles \cup {cycle}
                 /\ pc' = "idle"
                 /\ spc' = "terminated"
                 /\ listener' = FALSE
                 /\ UNCHANGED <<trackerVars, recaps, schedLog>>
    /\ scraped' = NoScrape
    /\ UNCHANGED <<sandbox, instance_status, is_healthy, phase_start, tokenSet, regionIdx,
                   trace, mon, cycle, createCalls, createOutcome, failedAt,
                   errorsLogged, diagnostics, cycleBase, highest>>

\* finally, without a sandbox: only print_recap().
NoDelete ==
    /\ spc = "main" /\ pc = "finally"
    /\ ~TeardownDue
    /\ recaps' = recaps + 1
    /\ Return
    /\ scraped' = NoScrape
    /\ UNCHANGED <<trackerVars, sandbox, instance_status, is_healthy, now, phase_start,
                   tokenSet, listener, regionIdx, trace, mon, failures, cycle,
                   createCalls, createOutcome, deleteCalls, deleteOutcome, failedAt, failCycles,
                   errorsLogged, diagnostics, cycleBase, highest>>

\* time.sleep(60) after main(region); then the next region, or the end of the for-loop.
Sleep60 ==
    /\ spc = "sleep60"
    /\ \E d \in Ticks : now' = now + d
    /\ schedLog' = Append(schedLog, "sleep60")
    /\ IF regionIdx < Len(Regions)
       THEN regionIdx' = regionIdx + 1 /\ spc' = "loop"
       ELSE regionIdx' = regionIdx /\ spc' = "sleep180"
    /\ scraped' = NoScrape
    /\ UNCHANGED <<trackerVars, pc, sandbox, instance_status, is_healthy, phase_start,
                   tokenSet, listener, trace, mon, failures, cycle, createCalls,
                   createOutcome, deleteCalls, deleteOutcome, failedAt, failCycles, errorsLogged,
                   recaps, diagnostics, cycleBase, highest>>

\* time.sleep(180) after the for-loop; then the while-loop starts the for-loop again.
Sleep180 ==
    /\ spc = "sleep180"
    /\ \E d \in Ticks : now' = now + d
    /\ schedLog' = Append(schedLog, "sleep180")
    /\ regionIdx' = 1
    /\ spc' = "loop"
    /\ scraped' = NoScrape
    /\ UNCHANGED <<trackerVars, pc, sandbox, instance_status, is_healthy, phase_start,
                   tokenSet, listener, trace, mon, failures, cycle, createCalls,
                   createOutcome, deleteCalls, deleteOutcome, failedAt, failCycles, errorsLogged,
                   recaps, diagnostics, cycleBase, highest>>

\* The listener thread serves one scrape: the response is the registry's content.
Scrape ==
    /\ listener
    /\ scraped' = [served |-> TRUE, body |-> registry]
    /\ UNCHANGED <<pollerVars, listener>>

Next ==
    \/ SchedStart
    \/ MainNoToken
    \/ MainBegin
    \/ Create
    \/ \E p \in Phases : Poll(p)
    \/ \E p \in Phases : PollSleep(p)
    \/ \E p \in Phases : PhaseExit(p)
    \/ HealthPoll
    \/ HealthSleep
    \/ Delete
    \/ NoDelete
    \/ Sleep60
    \/ Sleep180
    \/ Scrape

Spec == Init /\ [][Next]_vars

\* The steps of the main thread: everything but the listener thread's scrape.
PollerNext ==
    \/ SchedStart
    \/ MainNoToken
    \/ MainBegin
    \/ Create
    \/ \E p \in Phases : Poll(p)
    \/ \E p \in Phases : PollSleep(p)
    \/ \E p \in Phases : PhaseExit(p)
    \/ HealthPoll
    \/ HealthSleep
    \/ Delete
    \/ NoDelete
    \/ Sleep60
    \/ Sleep180

\* The main thread is the only thread running the scheduler loop and main():
\* whenever it has a next statement it executes it, whatever the listener
\* thread does (calls and sleeps return or raise, none hangs).
SpecFair == Spec /\ WF_vars(PollerNext)

\* ------------------------------------------- a TimingTracker driven directly
\* Arguments of the calls made on the tracker; "general" is record's default
\* category, "cleanup" is never passed to record here.
TNames == {"op-a", "op-b"}
TCategories == {"general", "setup", "total"}
QCategories == TCategories \cup {"cleanup"}
TRegions == {"fra"}

Call(op, name, duration, category, reg_label) ==
    [op |-> op, name |-> name, duration |-> duration, category |-> category,
     region |-> reg_label]

restVars == <<mainVars, schedVars, histVars, scraped, mon>>

\* tracker.record(name, duration, category, region)
TrackerRecord ==
    /\ Len(trace) < MaxCalls
    /\ \E name \in TNames, duration \in 0..MaxDur, category \in TCategories,
          reg_label \in TRegions :
         /\ SetWorld(record(World, name, duration, category, reg_label, now))
         /\ trace' = Append(trace, Call("record", name, duration, category, reg_label))
    /\ UNCHANGED restVars

\* tracker.record_total_time(region)
TrackerRecordTotal ==
    /\ Len(trace) < MaxCalls
    /\ \E reg_label \in TRegions :
         /\ SetWorld(record_total_time(World, reg_label))
         /\ trace' = Append(trace, Call("record_total_time", "", 0, "", reg_label))
    /\ UNCHANGED restVars

\* tracker.get_category_total(category); the value returned is kept in the trace.
TrackerGetCategoryTotal ==
    /\ Len(trace) < MaxCalls
    /\ \E category \in QCategories :
         /\ SetWorld(get_category_total_effect(World, category))
         /\ trace' = Append(trace, Call("get_category_total", "",
                                        get_category_total(World, category), category, ""))
    /\ UNCHANGED restVars

NextTracker ==
    \/ TrackerRecord
    \/ TrackerRecordTotal
    \/ TrackerGetCategoryTotal

SpecTracker == Init /\ [][NextTracker]_vars

\* ------------------------------------------------------------------ claims
Last(s) == s[Len(s)]

IsPrefix(s, t) == Len(s) <= Len(t) /\ \A i \in 1..Len(s) : s[i] = t[i]

\* The record calls among the first n calls of the trace, those of them made
\* with category cat, and the sum of the durations passed to a list of calls.
RecordCallsUpTo(n) == SelectSeq(SubSeq(trace, 1, n), LAMBDA c : c.op = "record")

RecordCalls == RecordCallsUpTo(Len(trace))

WithCategory(calls, cat) == SelectSeq(calls, LAMBDA c : c.category = cat)

RECURSIVE SumPassed(_)
SumPassed(calls) ==
    IF calls = <<>> THEN 0 ELSE Head(calls).duration + SumPassed(Tail(calls))

\* The durations of the operations log that carry category c, in log order.
RECURSIVE DurationsOf(_, _)
DurationsOf(ops, c) ==
    IF ops = <<>> THEN <<>>
    ELSE (IF Head(ops).category = c THEN <<Head(ops).duration>> ELSE <<>>)
         \o DurationsOf(Tail(ops), c)

\* C4: after any sequence of record calls, get_total_time() is the sum of the
\* durations passed to record, get_category_total(c) is the sum of those passed
\* with category c (0 for a category never recorded), every value a
\* get_category_total call returned was that sum, and the per-category lists
\* are the operations log filtered by category.
C4_TrackerSums ==
    /\ get_total_time(World) = SumPassed(RecordCalls)
    /\ \A cat \in QCategories :
         get_category_total(World, cat) = SumPassed(WithCategory(RecordCalls, cat))
    /\ \A i \in DOMAIN trace :
         trace[i].op = "get_category_total" =>
           trace[i].duration
             = SumPassed(WithCategory(RecordCallsUpTo(i), trace[i].category))
    /\ \A cat \in DOMAIN categories : categories[cat] = DurationsOf(operations, cat)
    /\ \A i \in DOMAIN operations : operations[i].category \in DOMAIN categories

\* C4 witness: records of non-zero duration in two categories, and a query of
\* a category that was never recorded.
C4_Witness ==
    /\ \E i, j \in DOMAIN trace :
         /\ trace[i].op = "record" /\ trace[j].op = "record"
         /\ trace[i].category # trace[j].category
         /\ trace[i].duration > 0 /\ trace[j].duration > 0
    /\ Last(trace).op = "get_category_total"
    /\ Last(trace).category = "cleanup"
    /\ Last(trace).duration = 0

\* C6 as stated: after record_total_time the tracker holds a measurement of
\* category "total" whose duration is the published total, and
\* get_category_total("total") equals it.
C6_TotalRecordedInTracker ==
    (trace # <<>> /\ Last(trace).op = "record_total_time") =>
        /\ \E i \in DOMAIN operations :
             /\ operations[i].category = "total"
             /\ operations[i].duration = Last(registry).value
        /\ get_category_total(World, "total") = Last(registry).value

\* C6 amended: record_total_time(region) publishes one sample with labels
\* (operation "total", category "total", region) whose value is the sum of the
\* recorded durations, and leaves the tracker's operations log and
\* per-category lists as they were.
C6_TotalPublishedOnly ==
    [][(trace' # trace /\ Last(trace').op = "record_total_time") =>
          /\ operations' = operations
          /\ categories' = categories
          /\ registry' = Append(registry,
                 [operation |-> "total", category |-> "total",
                  region |-> Last(trace').region,
                  value |-> SumPassed(RecordCalls)])]_vars

\* C6 witness: record_total_time was called on a tracker with a non-zero total.
C6_Witness ==
    /\ trace # <<>> /\ Last(trace).op = "record_total_time"
    /\ Last(registry).operation = "total"
    /\ Last(registry).value > 0
    /\ Last(registry).value = get_total_time(World)

\* main() is not running and at least one call of it has ended.
CycleOver == pc = "idle" /\ cycle > 0 /\ spc # "main"

\* C1: in every cycle sandbox.delete() is never called unless Sandbox.create
\* returned, never called twice, and when the cycle is over it was called
\* exactly once if create returned and not at all if create raised.
C1_TeardownOnce ==
    /\ deleteCalls <= 1
    /\ createOutcome # "returned" => deleteCalls = 0
    /\ (CycleOver /\ tokenSet) =>
         /\ createOutcome \in {"returned", "raised"}
         /\ createOutcome = "returned" => deleteCalls = 1
         /\ createOutcome = "raised" => deleteCalls = 0

\* C1 witness: a cycle is over in which create returned, a status call raised
\* in the starting phase, and delete was called once.
C1_Witness ==
    /\ CycleOver
    /\ createOutcome = "returned"
    /\ failedAt = "starting"
    /\ deleteCalls = 1

\* C2 as stated: when list_instances raised in the instance-allocation phase,
\* the cycle ends with exactly one sandbox.delete() call and the scheduler
\* goes on (the process has not ended).
C2_AllocationErrorContained ==
    (CycleOver /\ failedAt = "allocate") =>
        /\ deleteCalls = 1
        /\ spc \in {"sleep60", "sleep180", "loop"}

\* C3 as stated: when sandbox.delete() raised, main() still returned normally,
\* the recap of that cycle was printed and the scheduler goes on.
C3_DeleteErrorContained ==
    deleteOutcome = "raised" =>
        /\ spc \in {"sleep60", "sleep180", "loop"}
        /\ recaps = cycle

\* The phases of a cycle in which no call fails, as (name, category), in order.
ExpectedPhases ==
    << <<"Sandbox creation", "setup">>,
       <<"instance creation", "setup">>,
       <<"instance allocation", "setup">>,
       <<"instance starting", "setup">>,
       <<"Health check", "monitoring">>,
       <<"Sandbox deletion", "cleanup">> >>

RecordedPhases == [i \in DOMAIN operations |-> <<operations[i].name, operations[i].category>>]

\* C5: while no call has failed in a cycle, the measurements recorded so far
\* are an initial part of (creation, discovery, allocation, starting, health
\* check, deletion), each once and in this order; when such a cycle is over
\* they are exactly these six.
C5_OneMeasurementPerPhase ==
    (tokenSet /\ cycle > 0 /\ failedAt = "none" /\ deleteOutcome # "raised") =>
        /\ IsPrefix(RecordedPhases, ExpectedPhases)
        /\ CycleOver => RecordedPhases = ExpectedPhases

\* C5 witness: a cycle without a failing call is over, with six measurements.
C5_Witness ==
    /\ CycleOver /\ tokenSet
    /\ failedAt = "none" /\ deleteOutcome = "returned"
    /\ Len(operations) = 6

\* C7 as stated: without the token no create call is ever issued, and once
\* main() has been entered the diagnostic was printed and the process has
\* stopped (the scheduler does not go on iterating).
C7_MissingTokenIsFatal ==
    ~tokenSet =>
        /\ createCalls = 0
        /\ cycle > 0 => (diagnostics >= 1 /\ spc = "terminated")

\* C8 as stated: when SDK calls failed in cycle 2 and in no other cycle, then
\* after N >= 2 cycles there are N - 1 recap outputs and one logged failure,
\* and the scheduler is still running.
C8_OneFailedCycle ==
    (CycleOver /\ tokenSet /\ cycle >= 2 /\ failCycles = {2}) =>
        /\ recaps = cycle - 1
        /\ errorsLogged = 1
        /\ spc \in {"sleep60", "sleep180", "loop"}

\* The regions main() was called with, in call order.
Started == SelectSeq(schedLog, LAMBDA e : e \in {"fra", "was", "sin"})

\* C9 as stated (its safety part): the scheduler never stops; main() is called
\* for fra, was, sin, fra, ... in this order; a call of main() is followed by
\* its return before anything else, and a return by a sleep before the next call.
C9_SchedulerRunsForever ==
    /\ spc # "terminated"
    /\ \A i \in DOMAIN Started : Started[i] = Regions[((i - 1) % 3) + 1]
    /\ \A i \in DOMAIN schedLog :
         /\ (schedLog[i] \in {"fra", "was", "sin"} /\ i < Len(schedLog))
               => schedLog[i + 1] = "return"
         /\ (schedLog[i] = "return" /\ i < Len(schedLog))
               => schedLog[i + 1] = "sleep60"
         /\ (schedLog[i] \in {"fra", "was", "sin"} /\ i > 1)
               => schedLog[i - 1] \in {"sleep60", "sleep180"}

\* C10: the listener is up whenever a cycle is in progress (it was started
\* before the first one), so a scrape can be served in every state of a cycle;
\* serving a scrape changes nothing of the poller's state, and the response
\* holds exactly the observations already made on the registry.
C10_ScrapeAnyTime ==
    /\ [](spc = "main" => (listener /\ ENABLED Scrape))
    /\ [][scraped'.served =>
            /\ scraped'.body = registry
            /\ UNCHANGED pollerVars]_vars

\* C10 witness: a scrape was served while the poller sleeps in the allocation
\* phase of a cycle, with observations already published.
C10_Witness ==
    /\ scraped.served
    /\ spc = "main" /\ pc = "allocate_sleep"
    /\ Len(scraped.body) > 0

\* The observations made on the registry since the current cycle began, the
\* region of the current cycle, and the observation a record call must make.
CycleObs == SubSeq(registry, cycleBase + 1, Len(registry))

CycleRegion == Last(Started)

SampleOf(op) ==
    [operation |-> op.name, category |-> op.category, region |-> CycleRegion,
     value |-> op.duration]

SamplesOf(ops) == [i \in DOMAIN ops |-> SampleOf(ops[i])]

IsTotal(sample) == sample.operation = "total" /\ sample.category = "total"

\* C11 as stated: over a cycle the published observations are the record
\* calls, one for one (same labels, same value, same order).
C11_ObservationsAreRecords ==
    (tokenSet /\ cycle > 0) => CycleObs = SamplesOf(operations)

\* C11 amended: over a cycle the published observations other than the
\* ("total", "total", region) sample are the record calls, one for one, with
\* the labels (name, category, region) and the duration unchanged and in call
\* order; the only other observation is that sample, published by
\* record_total_time and not by a record call, at most once per cycle.
C11_RecordsPublishedVerbatim ==
    (tokenSet /\ cycle > 0) =>
        /\ SelectSeq(CycleObs, LAMBDA o : ~IsTotal(o)) = SamplesOf(operations)
        /\ Len(SelectSeq(CycleObs, IsTotal)) <= 1
        /\ Len(CycleObs) = Len(operations) + Len(SelectSeq(CycleObs, IsTotal))

\* C11 witness: a full cycle is over, with six records, one of them of
\* non-zero duration, and seven observations.
C11_Witness ==
    /\ CycleOver /\ tokenSet
    /\ Len(operations) = 6
    /\ Len(CycleObs) = 7
    /\ \E i \in DOMAIN operations : operations[i].duration > 0

\* The states of main() inside the polling loop of phase p, and inside the
\* health loop.
InPhase(p) == spc = "main" /\ pc \in {p, SleepPc(p)}

InHealth == spc = "main" /\ pc \in {"health", "health_sleep"}

\* C13 as stated: in the discovery, allocation and starting phases a status
\* check that returned a status not ending the phase is followed by the
\* poll-interval sleep before the next status check, whatever the status.
C13_SleepBetweenStatusChecks ==
    [][\A p \in Phases :
         (Poll(p) /\ failures' = failures /\ ~ExitCond(p, instance_status'))
            => pc' = SleepPc(p)]_vars

\* C14: a status reading that retreats with respect to an earlier reading of
\* the cycle neither ends the phase nor raises: the step that reads it stays
\* in the phase's loop, logs no error and leaves the recorded measurements as
\* they are, and from a loop holding such a reading the next step is again a
\* status call or the sleep (or a call that raised), never a record.
C14_RetreatIsPending ==
    [][\A p \in Phases :
         /\ (Poll(p) /\ failures' = failures /\ Rank(instance_status') < highest')
               => /\ pc' \in {p, SleepPc(p)}
                  /\ operations' = operations
                  /\ errorsLogged' = errorsLogged /\ failedAt' = failedAt
         /\ (InPhase(p) /\ Rank(instance_status) < highest)
               => /\ pc' \in {p, SleepPc(p), "finally"}
                  /\ operations' = operations
                  /\ pc' = "finally" => failures' = failures + 1]_vars

\* C14 witness: the starting phase sleeps on an empty status although
\* ALLOCATING had been read before; the three earlier phases stay recorded.
C14_Witness ==
    /\ pc = "starting_sleep" /\ instance_status = "" /\ highest = Rank(ALLOCATING)
    /\ Len(operations) = 3 /\ failedAt = "none"

\* C15: the exit predicates are nested (what ends starting ends allocation,
\* what ends allocation ends discovery); at the head of a loop whose exit
\* predicate the current status already satisfies no status call is made, and
\* the step taken there records the phase and keeps the status for the next
\* phase, so every status call consumes one status value and none is re-fetched.
C15_OneStatusEndsSeveralPhases ==
    /\ [](/\ \A st \in InstanceStatuses \cup {""} :
               /\ ExitCond("starting", st) => ExitCond("allocate", st)
               /\ ExitCond("allocate", st) => ExitCond("discover", st)
          /\ \A p \in Phases :
               (spc = "main" /\ pc = p /\ ExitCond(p, instance_status))
                  => (~ENABLED Poll(p) /\ ENABLED PhaseExit(p)))
    /\ [][\A p \in Phases :
            (spc = "main" /\ pc = p /\ ExitCond(p, instance_status))
               => /\ instance_status' = instance_status
                  /\ highest' = highest
                  /\ failures' = failures
                  /\ pc' \in {p, NextPc(p)}
                  /\ pc' = NextPc(p) =>
                        Last(operations').name = PhaseName(p)]_vars

\* C15 witness: allocation has just been recorded and the status that ended it
\* already ends the starting phase.
C15_Witness ==
    /\ spc = "main" /\ pc = "starting" /\ ExitCond("starting", instance_status)
    /\ Len(operations) = 3 /\ Last(operations).name = "instance allocation"

\* C16: a phase is left only when its exit predicate holds or a call raised;
\* as long as main() is in a phase's loop that phase is not recorded, the
\* sandbox is not deleted, no recap is printed for the cycle and the scheduler
\* has not moved on, so a predicate that never holds blocks the cycle there.
C16_PhaseBlocksUntilExit ==
    /\ [](/\ \A p \in Phases :
               InPhase(p) =>
                  /\ \A i \in DOMAIN operations : operations[i].name # PhaseName(p)
                  /\ deleteCalls = 0
                  /\ Len(Started) = cycle /\ Last(schedLog) = region
          /\ InHealth =>
                  /\ \A i \in DOMAIN operations : operations[i].name # "Health check"
                  /\ deleteCalls = 0
                  /\ Len(Started) = cycle /\ Last(schedLog) = region)
    /\ [][/\ \A p \in Phases :
               (InPhase(p) /\ ~InPhase(p)') =>
                  \/ ExitCond(p, instance_status) /\ pc' = NextPc(p)
                  \/ failures' = failures + 1 /\ pc' = "finally"
          /\ (InHealth /\ ~InHealth') =>
                  \/ is_healthy /\ pc' = "finally" /\ failures' = failures
                  \/ failures' = failures + 1 /\ pc' = "finally"]_vars

\* C16 witness: the starting phase is still waiting after time has passed on
\* a status that does not end it, with nothing recorded for it and no delete.
C16_Witness ==
    /\ InPhase("starting") /\ ~ExitCond("starting", instance_status)
    /\ now > phase_start
    /\ Len(operations) = 3 /\ deleteCalls = 0

\* The "total" samples among the observations of the current cycle.
CycleTotals == SelectSeq(CycleObs, IsTotal)

\* C18: in a cycle at most one "total" sample is published; it is there
\* exactly when the health check, the last of the five phases before
\* teardown, has been recorded, which by the end of the cycle is exactly when
\* no call of these phases failed; it is the sixth observation of the cycle,
\* published before sandbox.delete() is called and before the deletion
\* measurement, and its value is the sum of the five durations recorded before
\* it, the deletion's duration not included.
C18_TotalOncePerCleanCycle ==
    /\ [](( tokenSet /\ cycle > 0) =>
            /\ Len(CycleTotals) <= 1
            /\ Len(CycleTotals) = 1 <=>
                  (Len(operations) >= 5 /\ operations[5].name = "Health check")
            /\ (CycleOver \/ pc = "finally") =>
                  (Len(CycleTotals) = 1 <=> failedAt = "none")
            /\ \A i \in DOMAIN CycleObs :
                  IsTotal(CycleObs[i]) =>
                     /\ i = 6
                     /\ CycleObs[i].region = CycleRegion
                     /\ CycleObs[i].value = SumDurations(SubSeq(operations, 1, 5))
                     /\ \A j \in 1..5 : operations[j].name = ExpectedPhases[j][1])
    /\ [][Len(CycleTotals') > Len(CycleTotals) =>
             (deleteCalls' = 0 /\ pc' = "finally" /\ Len(operations') = 5)]_vars

\* C18 witness: a clean cycle is over, its pre-teardown phases took time, and
\* the total was published before the deletion's observation.
C18_Witness ==
    /\ CycleOver /\ tokenSet /\ failedAt = "none"
    /\ Len(CycleObs) = 7 /\ IsTotal(CycleObs[6]) /\ CycleObs[6].value > 0
    /\ CycleObs[7].operation = "Sandbox deletion"

\* The position of a phase among the five phases before teardown, and the
\* names recorded by the phases before it.
PhaseIndex(k) ==
    CASE k = "create" -> 1
      [] k = "discover" -> 2
      [] k = "allocate" -> 3
      [] k = "starting" -> 4
      [] k = "health" -> 5

NamesBefore(k) == [i \in 1..(PhaseIndex(k) - 1) |-> ExpectedPhases[i][1]]

RecordedNames == [i \in DOMAIN operations |-> operations[i].name]

PollReady(p) ==
    Poll(p) /\ failures' = failures /\ instance_status' \in {STARTING, HEALTHY}

HealthReady == HealthPoll /\ failures' = failures /\ is_healthy'

\* The environment of C20: no call ever raises, the status calls do not avoid
\* STARTING/HEALTHY forever, and is_healthy() does not answer false forever.
KindEnvironment ==
    /\ [](failures = 0)
    /\ \A p \in Phases : SF_vars(PollReady(p))
    /\ SF_vars(HealthReady)

\* C20: under fair scheduling and in such an environment every cycle of main()
\* (a call made with the API token set) terminates: once started it reaches teardown (sandbox.delete() is called
\* and returns), prints its recap and returns to the scheduler, which then
\* starts the next cycle (as long as the bound on cycles allows one).
C20_CycleTerminates ==
    KindEnvironment =>
        \A c \in 1..MaxCycles :
            /\ (tokenSet /\ cycle = c /\ spc = "main") ~>
                  (cycle = c /\ spc = "sleep60" /\ deleteOutcome = "returned"
                     /\ recaps = c /\ Len(operations) = 6)
            /\ (tokenSet /\ cycle = c /\ spc = "sleep60" /\ c < MaxCycles) ~>
                  (cycle = c + 1 /\ spc = "main")

\* C20 witness: with no call having failed, a second cycle is running after
\* the first one was torn down and printed its recap.
C20_Witness ==
    /\ tokenSet /\ failures = 0
    /\ cycle = 2 /\ spc = "main" /\ recaps = 1 /\ pc = "starting_sleep"

\* ---------------------------------------------------- monitor.py, its steps
\* Module level and __main__: without the token the process exits with status
\* 1; with it the metrics listener is started and the client set up.
MonBoot ==
    /\ mon.mpc = "boot"
    /\ mon' = [mon EXCEPT !.mpc = IF tokenSet THEN "loop" ELSE "exited"]
    /\ UNCHANGED mainSide

\* `while True: measure_deployment(client)`: a run begins with fresh locals.
MonMeasure ==
    /\ mon.mpc = "loop" /\ mon.runs < MaxRuns
    /\ mon' = [mon EXCEPT !.mpc = "create_app",
                          !.runs = @ + 1,
                          !.app_id = FALSE,
                          !.service_id = FALSE,
                          !.instance_allocating_time = MonNone,
                          !.elapsed = 0,
                          !.total_responsive_time = MonNone,
                          !.deleteAttempted = FALSE]
    /\ UNCHANGED mainSide

\* app_api.create_app: an ApiException (always, when the app of that name
\* exists) makes the run return; otherwise app_id is obtained.
MonCreateApp ==
    /\ mon.mpc = "create_app"
    /\ \E ok \in Outcomes :
         mon' = IF mon.appExists \/ ~ok
                THEN MonReturn(mon)
                ELSE [mon EXCEPT !.appExists = TRUE, !.app_id = TRUE,
                                 !.mpc = "create_service"]
    /\ UNCHANGED mainSide

\* service_api.create_service: an ApiException makes the run return;
\* otherwise service_id is obtained and t_end_creation taken.
MonCreateService ==
    /\ mon.mpc = "create_service"
    /\ \E ok \in Outcomes :
         mon' = IF ok
                THEN [mon EXCEPT !.serviceExists = TRUE, !.service_id = TRUE,
                                 !.elapsed = 0, !.mpc = "poll"]
                ELSE MonReturn(mon)
    /\ UNCHANGED mainSide

\* One turn of the polling loop: list_instances while no allocation time is
\* known (an exception of it is not caught), then requests.get once it is
\* known; a 200 ends the loop and the results are printed, anything else is
\* followed by time.sleep(1).  `elapsed` is the time since t_end_creation.
MonPoll ==
    /\ mon.mpc = "poll"
    /\ \E d \in 0..1, listed \in Outcomes, rep \in MonReplies, url \in UrlResults :
         LET needList == mon.instance_allocating_time = MonNone
             found == needList /\ rep # <<>> /\ rep[1] \in MonReady
             iat == IF found THEN mon.elapsed ELSE mon.instance_allocating_time
             after == mon.elapsed + d
         IN  /\ after <= MaxElapsed
             /\ IF needList /\ ~listed
                THEN mon' = MonCrash(mon)
                ELSE IF iat # MonNone /\ url = "200"
                THEN mon' = [mon EXCEPT !.instance_allocating_time = iat,
                                        !.elapsed = after,
                                        !.total_responsive_time = after,
                                        !.lastSuccess = after,
                                        !.mpc = "prompt"]
                ELSE /\ after + 1 <= MaxElapsed
                     /\ mon' = [mon EXCEPT !.instance_allocating_time = iat,
                                           !.elapsed = after + 1]
    /\ UNCHANGED mainSide

\* The cleanup prompt: only the answer "y" deletes; an exception of
\* delete_service is not caught, one of delete_app is printed.
MonPrompt ==
    /\ mon.mpc = "prompt"
    /\ \E answer \in Answers, deletedService \in Outcomes, deletedApp \in Outcomes :
         mon' = IF answer # "y"
                THEN MonReturn(mon)
                ELSE IF ~deletedService
                THEN MonCrash([mon EXCEPT !.deleteAttempted = TRUE])
                ELSE MonReturn([mon EXCEPT !.deleteAttempted = TRUE,
                                           !.serviceExists = FALSE,
                                           !.appExists = IF deletedApp THEN FALSE ELSE @])
    /\ UNCHANGED mainSide

\* time.sleep(300) after measure_deployment returned.
MonSleep300 ==
    /\ mon.mpc = "sleep300"
    /\ mon' = [mon EXCEPT !.mpc = "loop"]
    /\ UNCHANGED mainSide

NextMonitor ==
    \/ MonBoot
    \/ MonMeasure
    \/ MonCreateApp
    \/ MonCreateService
    \/ MonPoll
    \/ MonPrompt
    \/ MonSleep300

SpecMonitor == Init /\ [][NextMonitor]_vars

\* C12 as stated: whenever a run of measure_deployment has seen the public
\* URL answer 200, the gauge time_to_publicly_ready holds the time to
\* responsiveness measured by the last such run.
C12_GaugeTracksLastRun ==
    mon.lastSuccess # MonNone => mon.TIME_TO_READY = mon.lastSuccess

\* C17 as stated: when a run of measure_deployment that obtained an app id
\* returns, it has attempted to delete what it created.
C17_TeardownOnceHandleObtained ==
    (mon.mpc \in {"sleep300", "loop"} /\ mon.app_id) => mon.deleteAttempted

====
